---- MODULE Spec2Model ----
(***************************************************************************)
(* NeuroGraph: the knowledge graph kept in Neo4j and the operations that   *)
(* write it.                                                               *)
(*   - IngestionPipeline._create_document_node / _save_to_graph            *)
(*     (src/src/ingestion/pipeline.py)                                     *)
(*   - commit_triples (src/src/ui/pages/1_Validator.py)                    *)
(*   - calculate_trust_score / Bibliographer.get_trust_score               *)
(*     (src/src/ingestion/bibliographer.py)                                *)
(* Trust scores are integers in hundredths (0.85 is 85).  An edge weight   *)
(* is the exact rational num / (100 * 2^exp), kept in lowest terms, so     *)
(* that the halving of the running average loses nothing.                  *)
(***************************************************************************)
EXTENDS Integers, Sequences, FiniteSets, TLC

VARIABLES
    docs,        \* Document nodes: name -> [trust_score, ingested_at] or NoDoc
    nodes,       \* Concept nodes: node id (index) -> name
    edges,       \* RELATION edges: edge id (index) -> record
    clock,       \* the last value datetime() returned
    lastCommit,  \* the rows of the review commit just executed, if any
    pc,          \* position of process_document in its trust phase
    sig,         \* what the external services answer for the document
    textScore,   \* trust_score returned by calculate_trust_score
    metaDocType, \* trust_meta.get("doc_type")
    biblioScore, \* biblio_score returned by bibliographer.get_trust_score
    trustScore,  \* trust_score after max(trust_score, biblio_score)
    pages,       \* doc: the pages of the opened document
    pageNum,     \* page_num of the loop of process_document
    descriptions,\* what _analyze_page_images collected for the page
    knowledge,   \* what _extract_knowledge returned for the page
    tripleIdx,   \* position of the loop of _save_to_graph in knowledge
    log          \* the calls made so far by the run, in order

graphVars == <<docs, nodes, edges, clock, lastCommit>>
pageVars == <<pages, pageNum, descriptions, knowledge, tripleIdx>>
runVars == <<pc, sig, textScore, metaDocType, biblioScore, trustScore,
             pages, pageNum, descriptions, knowledge, tripleIdx, log>>
vars == <<docs, nodes, edges, clock, lastCommit,
          pc, sig, textScore, metaDocType, biblioScore, trustScore,
          pages, pageNum, descriptions, knowledge, tripleIdx, log>>

-----------------------------------------------------------------------------
(* Bounds of the model *)

MaxObs == 2        \* observations (entries of sources) in the whole graph
MaxClock == 3      \* statements that read datetime()
MaxRepeat == 3     \* observations of one edge, where only that is bounded

DocNames == {"doc1", "doc2"}
ConceptNames == {"A", "B"}
\* Trust scores handed to _create_document_node, in hundredths.
TrustValues == {60, 80}

\* Predicate texts, as sequences of characters.
PredTexts == { <<"i", "s">>, <<"i", "s", " ", "a">> }

-----------------------------------------------------------------------------
(* Strings *)

\* str.upper() / Cypher toUpper() on one character
UpperChar(c) ==
    CASE c = "i" -> "I"
      [] c = "s" -> "S"
      [] c = "a" -> "A"
      [] OTHER -> c

\* Cypher toUpper(row.predicate)
ToUpper(s) == [i \in 1..Len(s) |-> UpperChar(s[i])]

\* str.replace(" ", "_")
ReplaceSpaces(s) == [i \in 1..Len(s) |-> IF s[i] = " " THEN "_" ELSE s[i]]

\* triple["predicate"].upper().replace(" ", "_")
NormalizePredicate(s) == ReplaceSpaces(ToUpper(s))

-----------------------------------------------------------------------------
(* Weights: exact rationals num / (100 * 2^exp) *)

RECURSIVE Reduce(_)
Reduce(w) ==
    IF w.exp > 0 /\ w.num % 2 = 0
    THEN Reduce([num |-> w.num \div 2, exp |-> w.exp - 1])
    ELSE w

\* a trust score as a weight
WeightOf(t) == [num |-> t, exp |-> 0]

\* the sum taken without the division by two
SumNotHalved(w, t) == Reduce([num |-> w.num + t * (2 ^ w.exp), exp |-> w.exp])

\* (r.weight + doc.trust_score) / 2
Average(w, t) == Reduce([num |-> w.num + t * (2 ^ w.exp), exp |-> w.exp + 1])

\* 2 * m = w + t, by cross-multiplication
IsMeanOf(m, w, t) ==
    2 * m.num * (2 ^ w.exp) = (w.num + t * (2 ^ w.exp)) * (2 ^ m.exp)

\* 0 <= w <= 1
InUnitInterval(w) == 0 <= w.num /\ w.num <= 100 * (2 ^ w.exp)

-----------------------------------------------------------------------------
(* Graph values *)

NoDoc == [present |-> FALSE]
NullStatus == "NULL"          \* the edge has no status property
NullTime == <<>>              \* the edge has no validated_at property
NoCommit == [rows |-> <<>>, again |-> FALSE]

\* coalesce(r.status, 'PROVISIONAL')
StatusOf(e) == IF e.status = NullStatus THEN "PROVISIONAL" ELSE e.status

\* (s.name, r.type, o.name) of an edge
KeyOf(ns, e) == <<ns[e.from], e.type, ns[e.to]>>

EdgeIds == 1..Len(edges)

-----------------------------------------------------------------------------
(* MERGE (d:Document {name: $name}) SET d.trust_score, d.ingested_at *)
(* Every statement that reads datetime() reads a later time than the last. *)

CreateDocumentNode(name, trust) ==
    /\ clock < MaxClock
    /\ clock' = clock + 1
    /\ docs' = [docs EXCEPT ![name] =
                  [present |-> TRUE, trust_score |-> trust, ingested_at |-> clock']]
    /\ lastCommit' = NoCommit
    /\ UNCHANGED <<nodes, edges>>

-----------------------------------------------------------------------------
(* The upsert query of _save_to_graph *)

\* MATCH of (:Concept {name: $name})
MatchConcept(ns, name) == {i \in 1..Len(ns) : ns[i] = name}

\* MERGE (:Concept {name: $name}): create the node when none matches
MergeConcept(ns, name) ==
    IF MatchConcept(ns, name) = {} THEN Append(ns, name) ELSE ns

PairLE(p, q) == p[1] < q[1] \/ (p[1] = q[1] /\ p[2] <= q[2])

\* the rows (s, o) in the order the query produces them
RECURSIVE PairsInOrder(_)
PairsInOrder(S) ==
    IF S = {} THEN <<>>
    ELSE LET p == CHOOSE x \in S : \A y \in S : PairLE(x, y)
         IN <<p>> \o PairsInOrder(S \ {p})

\* ON CREATE SET r.weight = doc.trust_score, r.sources = [doc.name]
CreatedEdge(p, pred, source, trust) ==
    [from |-> p[1], to |-> p[2], type |-> pred,
     weight |-> WeightOf(trust), sources |-> <<source>>,
     status |-> NullStatus, validated_at |-> NullTime]

\* the update with the status reset, as if a new observation reopened review
MatchedEdgeReopened(e, source, trust) ==
    [e EXCEPT !.weight = Average(@, trust), !.sources = Append(@, source),
              !.status = NullStatus, !.validated_at = NullTime]

\* the update with the new source put first
MatchedEdgePrepended(e, source, trust) ==
    [e EXCEPT !.weight = Average(@, trust), !.sources = <<source>> \o @]

\* the update that averages the stored weight with itself
MatchedEdgeSelfAverage(e, source, trust) ==
    [e EXCEPT !.weight = Average(@, @.num \div (2 ^ @.exp)),
              !.sources = Append(@, source)]

\* ON MATCH SET r.weight = (r.weight + doc.trust_score) / 2,
\*              r.sources = r.sources + [doc.name]
MatchedEdge(e, source, trust) ==
    [e EXCEPT !.weight = Average(@, trust), !.sources = Append(@, source)]

\* MERGE (s)-[r:RELATION {type: $pred}]->(o) over the rows (s, o)
MergeRelation(es, pairs, pred, source, trust) ==
    LET Matches(e) == <<e.from, e.to>> \in pairs /\ e.type = pred
        fresh == {p \in pairs :
                    ~ \E i \in 1..Len(es) :
                        /\ es[i].from = p[1] /\ es[i].to = p[2]
                        /\ es[i].type = pred}
        order == PairsInOrder(fresh)
    IN  [i \in 1..Len(es) |->
            IF Matches(es[i]) THEN MatchedEdge(es[i], source, trust) ELSE es[i]]
        \o [j \in 1..Len(order) |-> CreatedEdge(order[j], pred, source, trust)]

\* the query with the Document matched optionally: the Concept nodes are
\* merged even when no Document has the name
UpsertResultOptionalDoc(ns, es, subj, pred, obj, source) ==
    LET ns1 == MergeConcept(ns, subj)
        ns2 == MergeConcept(ns1, obj)
        pairs == MatchConcept(ns1, subj) \X MatchConcept(ns2, obj)
    IN IF ~ docs[source].present
       THEN [nodes |-> ns2, edges |-> es]
       ELSE [nodes |-> ns2,
             edges |-> MergeRelation(es, pairs, pred, source,
                                     docs[source].trust_score)]

\* the graph after the query, as [nodes, edges]
UpsertResult(ns, es, subj, pred, obj, source) ==
    IF ~ docs[source].present
    THEN [nodes |-> ns, edges |-> es]      \* MATCH (doc) yields no row
    ELSE LET ns1 == MergeConcept(ns, subj)
             ns2 == MergeConcept(ns1, obj)
             pairs == MatchConcept(ns1, subj) \X MatchConcept(ns2, obj)
         IN [nodes |-> ns2,
             edges |-> MergeRelation(es, pairs, pred, source,
                                     docs[source].trust_score)]

\* one iteration of the loop of _save_to_graph
SaveTriple(subj, predText, obj, source) ==
    LET g == UpsertResult(nodes, edges, subj, NormalizePredicate(predText),
                          obj, source)
    IN /\ nodes' = g.nodes
       /\ edges' = g.edges
       /\ lastCommit' = NoCommit
       /\ UNCHANGED <<docs, clock>>

-----------------------------------------------------------------------------
(* commit_triples *)

\* the SET clause without the validated_at item
CommitRowNoStamp(g, row, now) ==
    IF row.rel_id \notin 1..Len(g.edges)
    THEN g
    ELSE LET e == g.edges[row.rel_id]
             ns1 == [g.nodes EXCEPT ![e.from] = row.subject]
             ns2 == [ns1 EXCEPT ![e.to] = row.object]
         IN [nodes |-> ns2,
             edges |-> [g.edges EXCEPT ![row.rel_id] =
                          [@ EXCEPT !.type = ToUpper(row.predicate),
                                    !.status = "VALIDATED"]]]

\* the SET clause for one row of UNWIND $rows
CommitRow(g, row, now) ==
    IF row.rel_id \notin 1..Len(g.edges)
    THEN g                                  \* MATCH ... WHERE id(r) = row.rel_id
    ELSE LET e == g.edges[row.rel_id]
             ns1 == [g.nodes EXCEPT ![e.from] = row.subject]
             ns2 == [ns1 EXCEPT ![e.to] = row.object]
         IN [nodes |-> ns2,
             edges |-> [g.edges EXCEPT ![row.rel_id] =
                          [@ EXCEPT !.type = ToUpper(row.predicate),
                                    !.status = "VALIDATED",
                                    !.validated_at = <<now>>]]]

RECURSIVE CommitRows(_, _, _)
CommitRows(g, rows, now) ==
    IF rows = <<>> THEN g
    ELSE CommitRows(CommitRow(g, Head(rows), now), Tail(rows), now)

\* the rows a reviewer can submit for the edges of the graph
Rows == [rel_id : EdgeIds, subject : ConceptNames,
         predicate : PredTexts, object : ConceptNames]

CommitTriples(rows) ==
    LET g == CommitRows([nodes |-> nodes, edges |-> edges], rows, clock + 1)
    IN /\ rows # <<>>
       /\ clock < MaxClock
       /\ clock' = clock + 1
       /\ nodes' = g.nodes
       /\ edges' = g.edges
       /\ lastCommit' = [rows |-> rows, again |-> (lastCommit.rows = rows)]
       /\ UNCHANGED docs

-----------------------------------------------------------------------------
(* Bounds on the graph an upsert leaves *)

RECURSIVE TotalObs(_)
TotalObs(es) ==
    IF es = <<>> THEN 0 ELSE Len(Head(es).sources) + TotalObs(Tail(es))

WithinObs(es) == TotalObs(es) <= MaxObs

WithinRepeat(es) == \A i \in 1..Len(es) : Len(es[i].sources) <= MaxRepeat

-----------------------------------------------------------------------------
(* The graph under ingestion and review *)

\* no page in hand, nothing called yet
NoPages ==
    /\ pageNum = 0
    /\ descriptions = <<>>
    /\ knowledge = <<>>
    /\ tripleIdx = 0
    /\ log = <<>>

IdleRun ==
    /\ pc = "idle"
    /\ pages = <<>>
    /\ NoPages
    /\ sig = [classifier |-> "FAILED", doi |-> FALSE,
              citations |-> <<>>, alex |-> <<>>]
    /\ textScore = 0
    /\ metaDocType = "NONE"
    /\ biblioScore = 0
    /\ trustScore = 0

EmptyGraph ==
    /\ docs = [d \in DocNames |-> NoDoc]
    /\ nodes = <<>>
    /\ edges = <<>>
    /\ clock = 0
    /\ lastCommit = NoCommit

Init == EmptyGraph /\ IdleRun

\* the documents ingested while the graph is under review
ReviewDocs == {"doc1"}

DoCreateDocument ==
    /\ \E d \in ReviewDocs, t \in TrustValues : CreateDocumentNode(d, t)
    /\ UNCHANGED runVars

DoSaveTriple ==
    /\ TotalObs(edges) < MaxObs
    /\ \E s \in ConceptNames, p \in PredTexts, o \in ConceptNames, d \in ReviewDocs :
          SaveTriple(s, p, o, d)
    /\ WithinObs(edges')
    /\ UNCHANGED runVars

DoCommit ==
    /\ \E r \in Rows : CommitTriples(<<r>>)
    /\ UNCHANGED runVars

Next == DoCreateDocument \/ DoSaveTriple \/ DoCommit

Spec == Init /\ [][Next]_vars

-----------------------------------------------------------------------------
(* Trust scoring: bibliographer.py *)

\* the labels the classifier is asked to choose from
Taxonomy == {"LAB_NOTE", "TEXTBOOK", "LECTURE_SLIDES", "IMAGE_CAPTION",
             "EXPERIMENTAL_STUDY", "REVIEW_ARTICLE", "POPULAR_SCIENCE", "OTHER"}

\* citation counts the lookups answer with
CitationCounts == {0, 1, 10, 11, 50, 51, 100, 101, 500}

\* What the services answer for one document:
\*   classifier: the label the classifier returns, or "FAILED" when it raises
\*   doi:        whether find_doi finds an identifier in the text sample
\*   citations:  <<c>> when fetch_citation_count returns c, <<>> when None
\*   alex:       <<work>> when _query_openalex returns a work, <<>> when None
Signals ==
    [classifier : Taxonomy \cup {"FAILED"},
     doi : BOOLEAN,
     citations : {<<>>} \cup {<<c>> : c \in CitationCounts},
     alex : {<<>>} \cup {<<w>> : w \in [cited_by_count : CitationCounts,
                                         is_retracted : BOOLEAN]}]

\* str.lower() on the labels
LowerLabel(t) ==
    CASE t = "LAB_NOTE" -> "lab_note"
      [] t = "TEXTBOOK" -> "textbook"
      [] t = "LECTURE_SLIDES" -> "lecture_slides"
      [] t = "IMAGE_CAPTION" -> "image_caption"
      [] t = "EXPERIMENTAL_STUDY" -> "experimental_study"
      [] t = "REVIEW_ARTICLE" -> "review_article"
      [] t = "POPULAR_SCIENCE" -> "popular_science"
      [] t = "OTHER" -> "other"
      [] t = "Paper" -> "paper"
      [] OTHER -> t

\* str.upper() on the labels
UpperLabel(t) == IF t = "Paper" THEN "PAPER" ELSE t

\* _classify_document_type: the doc_type it returns
ClassifyDocumentType(s) ==
    IF s.classifier = "FAILED" THEN "OTHER" ELSE UpperLabel(s.classifier)

\* DOC_TYPE_TRUST.get(doc_type.upper(), 0.5)
TrustFromDocType(t) ==
    CASE UpperLabel(t) = "LAB_NOTE" -> 100
      [] UpperLabel(t) = "TEXTBOOK" -> 90
      [] UpperLabel(t) = "LECTURE_SLIDES" -> 70
      [] UpperLabel(t) = "IMAGE_CAPTION" -> 60
      [] UpperLabel(t) = "EXPERIMENTAL_STUDY" -> 90
      [] UpperLabel(t) = "REVIEW_ARTICLE" -> 85
      [] UpperLabel(t) = "POPULAR_SCIENCE" -> 60
      [] OTHER -> 50

\* the buckets with the thresholds 100 and 10 and the floor 0.75
CitationScoreHundredTen(c) ==
    IF c > 100 THEN 95 ELSE IF c > 10 THEN 85 ELSE 75

\* the score calculate_trust_score returns once the lookup answered c
CitationScore(c) ==
    IF c > 50 THEN 95 ELSE IF c > 0 THEN 85 ELSE 80

\* calculate_trust_score: the score and the doc_type of the details
CalculateTrustScore(s) ==
    IF s.doi /\ s.citations # <<>>
    THEN [score |-> CitationScore(s.citations[1]), doc_type |-> "NONE"]
    ELSE LET doc_type == ClassifyDocumentType(s)
         IN [score |-> TrustFromDocType(doc_type), doc_type |-> doc_type]

\* get_trust_score with the prior of a paper where no signal decides
GetTrustScorePaperPrior(s, doc_type_detected) ==
    IF LowerLabel(doc_type_detected) \in {"note", "lab_note", "labnote"}
    THEN 100
    ELSE IF s.alex # <<>>
    THEN LET citations == s.alex[1].cited_by_count
         IN IF s.alex[1].is_retracted THEN 10
            ELSE IF citations > 100 THEN 95
            ELSE IF citations > 10 THEN 85
            ELSE 75
    ELSE IF UpperLabel(doc_type_detected) \in {"TEXTBOOK"} THEN 90
    ELSE 70

\* Bibliographer.get_trust_score
GetTrustScore(s, doc_type_detected) ==
    IF LowerLabel(doc_type_detected) \in {"note", "lab_note", "labnote"}
    THEN 100
    ELSE IF s.alex # <<>>
    THEN LET citations == s.alex[1].cited_by_count
         IN IF s.alex[1].is_retracted THEN 10
            ELSE IF citations > 100 THEN 95
            ELSE IF citations > 10 THEN 85
            ELSE 75
    ELSE IF UpperLabel(doc_type_detected) \in {"TEXTBOOK"} THEN 90
    ELSE IF UpperLabel(doc_type_detected)
              \in {"PAPER", "EXPERIMENTAL_STUDY", "REVIEW_ARTICLE"} THEN 70
    ELSE 50

\* the text-path score kept, the title-path score dropped
TextScoreOnly(text, biblio) == text

\* max(trust_score, biblio_score)
CombinedTrust(text, biblio) == IF text >= biblio THEN text ELSE biblio

-----------------------------------------------------------------------------
(* process_document, from the text sample to the Document node *)

\* path.name of the document under ingestion
IngestedDoc == "doc1"

\* one call made by the run: which call, for which page (1-based, 0 before the
\* page loop), for which image or triple of the page, and whether it returned
Event(ev, page, item, ok) == [ev |-> ev, page |-> page, item |-> item, ok |-> ok]

\* trust_score, trust_meta = calculate_trust_score(text_sample, doi, classifier)
ScoreText ==
    /\ pc = "score_text"
    /\ textScore' = CalculateTrustScore(sig).score
    /\ metaDocType' = CalculateTrustScore(sig).doc_type
    /\ pc' = "score_title"
    /\ log' = Append(log, Event("score_text", 0, 0, TRUE))
    /\ UNCHANGED <<sig, biblioScore, trustScore>>
    /\ UNCHANGED pageVars
    /\ UNCHANGED graphVars

\* doc_type_detected = trust_meta.get("doc_type") or "Paper"
\* biblio_score = bibliographer.get_trust_score(path.stem, doc_type_detected)
ScoreTitle ==
    /\ pc = "score_title"
    /\ biblioScore' = GetTrustScore(sig, IF metaDocType = "NONE" THEN "Paper"
                                                                ELSE metaDocType)
    /\ pc' = "combine"
    /\ log' = Append(log, Event("score_title", 0, 0, TRUE))
    /\ UNCHANGED <<sig, textScore, metaDocType, trustScore>>
    /\ UNCHANGED pageVars
    /\ UNCHANGED graphVars

\* trust_score = max(trust_score, biblio_score)
CombineTrust ==
    /\ pc = "combine"
    /\ trustScore' = CombinedTrust(textScore, biblioScore)
    /\ pc' = "create_document"
    /\ UNCHANGED <<sig, textScore, metaDocType, biblioScore, log>>
    /\ UNCHANGED pageVars
    /\ UNCHANGED graphVars

\* self._create_document_node(path.name, trust_score)
CreateDocument ==
    /\ pc = "create_document"
    /\ CreateDocumentNode(IngestedDoc, trustScore)
    /\ pc' = "pages"
    /\ log' = Append(log, Event("document", 0, 0, TRUE))
    /\ UNCHANGED <<sig, textScore, metaDocType, biblioScore, trustScore>>
    /\ UNCHANGED pageVars

InitTrust ==
    /\ EmptyGraph
    /\ pc = "score_text"
    /\ sig \in Signals
    /\ textScore = 0
    /\ metaDocType = "NONE"
    /\ biblioScore = 0
    /\ trustScore = 0
    /\ pages = <<>>
    /\ NoPages

NextTrust == ScoreText \/ ScoreTitle \/ CombineTrust \/ CreateDocument

SpecTrust == InitTrust /\ [][NextTrust]_vars

-----------------------------------------------------------------------------
(* Claims about the trust score *)

\* the title lookup was made and reported a retraction
RetractionReported ==
    /\ sig.alex # <<>>
    /\ sig.alex[1].is_retracted
    /\ LowerLabel(IF metaDocType = "NONE" THEN "Paper" ELSE metaDocType)
          \notin {"note", "lab_note", "labnote"}

\* C4: when the bibliographic lookup reports the document retracted, the trust
\* score stored on the Document node is exactly 0.1.
C4_RetractionForcesFloor ==
    (pc = "pages" /\ RetractionReported)
    => docs[IngestedDoc].trust_score = 10

\* C5: when the document is a lab note, the trust score stored on the Document
\* node is exactly 1.0, whatever the other signals are.
C5_LabNoteOverride ==
    (pc = "pages" /\ sig.classifier = "LAB_NOTE")
    => docs[IngestedDoc].trust_score = 100

\* the score of step 3, the structural classification
StructuralScore ==
    CASE sig.classifier = "LAB_NOTE" -> 100
      [] sig.classifier \in {"TEXTBOOK", "EXPERIMENTAL_STUDY"} -> 90
      [] sig.classifier = "REVIEW_ARTICLE" -> 85
      [] sig.classifier = "LECTURE_SLIDES" -> 70
      [] sig.classifier \in {"IMAGE_CAPTION", "POPULAR_SCIENCE"} -> 60
      [] OTHER -> 50

\* C6 as stated: with an identifier and a lookup answering c, the text-path
\* score is 0.95 if c > 100, 0.85 if 10 < c <= 100, 0.75 if 0 < c <= 10; with
\* c = 0 or no answer the structural classification decides.
C6_CitationBuckets ==
    pc # "score_text" =>
        IF sig.doi /\ sig.citations # <<>> /\ sig.citations[1] > 0
        THEN textScore = (IF sig.citations[1] > 100 THEN 95
                          ELSE IF sig.citations[1] > 10 THEN 85 ELSE 75)
        ELSE textScore = StructuralScore

\* C6 as amended: with an identifier and a lookup answering c, the text-path
\* score is 0.95 if c > 50, 0.85 if 0 < c <= 50, 0.80 if c = 0; only without an
\* identifier or without an answer the structural classification decides.
C6_CitationBucketsOfCode ==
    pc # "score_text" =>
        IF sig.doi /\ sig.citations # <<>>
        THEN textScore = (IF sig.citations[1] > 50 THEN 95
                          ELSE IF sig.citations[1] > 0 THEN 85 ELSE 80)
        ELSE textScore = StructuralScore

\* an identifier with no citation yet, scored by the citation step
C6_Witness ==
    /\ pc # "score_text"
    /\ sig.doi /\ sig.citations = <<0>>
    /\ sig.classifier = "TEXTBOOK"
    /\ textScore = 80

\* C7: the trust score stored on the Document node is the larger of the
\* text-path score and the title-path score.
C7_TrustIsMaximum ==
    pc = "pages" =>
        /\ docs[IngestedDoc].present
        /\ docs[IngestedDoc].trust_score >= textScore
        /\ docs[IngestedDoc].trust_score >= biblioScore
        /\ docs[IngestedDoc].trust_score \in {textScore, biblioScore}
        /\ textScore = CalculateTrustScore(sig).score

\* the title path more confident than the text path
C7_Witness ==
    /\ pc = "pages"
    /\ biblioScore > textScore
    /\ docs[IngestedDoc].trust_score = biblioScore

-----------------------------------------------------------------------------
(* The graph under ingestion alone: document upserts and triple upserts *)

DoCreateAnyDocument ==
    /\ \E d \in DocNames, t \in TrustValues : CreateDocumentNode(d, t)
    /\ UNCHANGED runVars

DoSaveAnyTriple ==
    /\ TotalObs(edges) < MaxObs
    /\ \E s \in ConceptNames, p \in PredTexts, o \in ConceptNames, d \in DocNames :
          SaveTriple(s, p, o, d)
    /\ WithinObs(edges')
    /\ UNCHANGED runVars

NextMerge == DoCreateAnyDocument \/ DoSaveAnyTriple

SpecMerge == Init /\ [][NextMerge]_vars

-----------------------------------------------------------------------------
(* Observations of two edge keys, each document ingested once *)

OrderTriples == { <<"A", <<"i", "s">>, "B">>, <<"B", <<"i", "s">>, "A">> }

DoCreateOnce ==
    /\ \E d \in DocNames, t \in TrustValues :
          /\ ~ docs[d].present
          /\ CreateDocumentNode(d, t)
    /\ UNCHANGED runVars

DoObserve ==
    /\ \E k \in OrderTriples, d \in DocNames : SaveTriple(k[1], k[2], k[3], d)
    /\ WithinRepeat(edges')
    /\ UNCHANGED runVars

NextOrder == DoCreateOnce \/ DoObserve

SpecOrder == Init /\ [][NextOrder]_vars

-----------------------------------------------------------------------------
(* Claims about the graph *)

EdgesWithKey(ns, es, k) == {i \in 1..Len(es) : KeyOf(ns, es[i]) = k}

\* C1: an upsert from a document in the graph leaves exactly one edge with the
\* triple's key, still PROVISIONAL; when the key was new its weight is the
\* document's trust and its sources are [doc]; when the edge existed its weight
\* is (old weight + trust) / 2 and the document's name is appended to its
\* sources, so trust t1 then t2 gives (t1 + t2) / 2 and [doc1, doc2].
C1_UpsertRule ==
    [][\A s \in ConceptNames, p \in PredTexts, o \in ConceptNames, d \in DocNames :
         (SaveTriple(s, p, o, d) /\ docs[d].present) =>
            LET k == <<s, NormalizePredicate(p), o>>
                t == docs[d].trust_score
                before == EdgesWithKey(nodes, edges, k)
                after == EdgesWithKey(nodes', edges', k)
            IN /\ Cardinality(after) = 1
               /\ \A i \in after :
                    /\ StatusOf(edges'[i]) = "PROVISIONAL"
                    /\ before = {} =>
                          /\ edges'[i].weight = WeightOf(t)
                          /\ edges'[i].sources = <<d>>
                    /\ \A j \in before :
                          /\ i = j
                          /\ IsMeanOf(edges'[i].weight, edges[j].weight, t)
                          /\ edges'[i].sources = edges[j].sources \o <<d>>
      ]_vars

\* trust 0.8 from doc1, then 0.6 from doc2: one edge A -IS-> B of weight 0.7
C1_Witness ==
    \E i \in EdgeIds :
        /\ docs["doc1"].present /\ docs["doc1"].trust_score = 80
        /\ docs["doc2"].present /\ docs["doc2"].trust_score = 60
        /\ Len(edges) = 1
        /\ KeyOf(nodes, edges[i]) = <<"A", <<"I", "S">>, "B">>
        /\ edges[i].sources = <<"doc1", "doc2">>
        /\ edges[i].weight = [num |-> 70, exp |-> 0]
        /\ StatusOf(edges[i]) = "PROVISIONAL"

\* C2: no two distinct edges have the same (subject name, type, object name).
C2_UniqueKeys ==
    \A i, j \in EdgeIds :
        i # j => KeyOf(nodes, edges[i]) # KeyOf(nodes, edges[j])

\* C3: an edge is never removed; its status changes only from PROVISIONAL to
\* VALIDATED and only in a review commit of that edge; its validated_at changes
\* only in a review commit of that edge; a VALIDATED edge stays VALIDATED; a
\* new edge is PROVISIONAL.
C3_StatusTransitions ==
    [][/\ Len(edges) <= Len(edges')
       /\ \A i \in 1..Len(edges) :
            LET committed == \E r \in Rows : r.rel_id = i /\ CommitTriples(<<r>>)
            IN /\ edges'[i].status # edges[i].status =>
                     /\ StatusOf(edges[i]) = "PROVISIONAL"
                     /\ StatusOf(edges'[i]) = "VALIDATED"
                     /\ committed
               /\ edges'[i].validated_at # edges[i].validated_at => committed
               /\ StatusOf(edges[i]) = "VALIDATED" =>
                     StatusOf(edges'[i]) = "VALIDATED"
       /\ \A i \in (Len(edges) + 1)..Len(edges') :
            StatusOf(edges'[i]) = "PROVISIONAL"
      ]_vars

\* a VALIDATED edge observed again after its commit
C3_Witness ==
    /\ Len(edges) = 1
    /\ edges[1].status = "VALIDATED"
    /\ edges[1].validated_at = <<clock>>
    /\ lastCommit = NoCommit
    /\ Len(edges[1].sources) = 2

\* C8: every edge weight lies in [0,1] (the document trust scores do).
C8_WeightInUnitInterval ==
    \A i \in EdgeIds : InUnitInterval(edges[i].weight)

\* an averaged weight on a reviewed edge
C8_Witness ==
    \E i \in EdgeIds :
        /\ Len(edges[i].sources) = 2
        /\ edges[i].weight = [num |-> 70, exp |-> 0]
        /\ edges[i].status = "VALIDATED"

\* C10: a review commit of edge X leaves X VALIDATED with a validated_at; a
\* commit of the same row right after it leaves X's subject, type and object
\* as the first commit left them.
C10_CommitIdempotent ==
    [][\A r \in Rows :
         CommitTriples(<<r>>) =>
            /\ edges'[r.rel_id].status = "VALIDATED"
            /\ edges'[r.rel_id].validated_at # NullTime
            /\ lastCommit.rows = <<r>> =>
                  KeyOf(nodes', edges'[r.rel_id]) = KeyOf(nodes, edges[r.rel_id])
      ]_vars

\* the same row committed twice in a row
C10_Witness ==
    /\ lastCommit.again
    /\ \A k \in 1..Len(lastCommit.rows) :
          /\ edges[lastCommit.rows[k].rel_id].status = "VALIDATED"
          /\ edges[lastCommit.rows[k].rel_id].validated_at = <<clock>>

-----------------------------------------------------------------------------
(* Claims about the order of observations *)

Occurrences(seq, d) == Cardinality({i \in 1..Len(seq) : seq[i] = d})

\* the same observations, in any order
SameObservations(s1, s2) ==
    /\ Len(s1) = Len(s2)
    /\ \A d \in DocNames : Occurrences(s1, d) = Occurrences(s2, d)

\* C9 as amended: two edges built from the same one or two observations carry
\* the same weight, whatever the order in which the observations arrived.
C9_OrderIndependentUpToTwo ==
    \A i, j \in EdgeIds :
        (/\ Len(edges[i].sources) <= 2
         /\ SameObservations(edges[i].sources, edges[j].sources))
        => edges[i].weight = edges[j].weight

\* C9 as stated: two edges built from the same observations carry the same
\* weight, whatever the order in which the observations arrived.
C9_OrderIndependent ==
    \A i, j \in EdgeIds :
        SameObservations(edges[i].sources, edges[j].sources)
        => edges[i].weight = edges[j].weight

\* the same two observations of different trust, in the two orders
C9_Witness ==
    \E i, j \in EdgeIds :
        /\ docs["doc1"].present /\ docs["doc2"].present
        /\ docs["doc1"].trust_score # docs["doc2"].trust_score
        /\ edges[i].sources = <<"doc1", "doc2">>
        /\ edges[j].sources = <<"doc2", "doc1">>
        /\ edges[i].weight = edges[j].weight

-----------------------------------------------------------------------------
(* Claims about the stored names *)

\* C11: every edge's stored type is the normalized predicate: upper-case, with
\* every space replaced by an underscore; also after a review commit that
\* supplies predicate text.
C11_TypeNormalized ==
    \A i \in EdgeIds : edges[i].type = NormalizePredicate(edges[i].type)

\* C12: no two Concept nodes have the same name, also after a review commit
\* that renames the subject or the object of an edge.
C12_UniqueConceptNames ==
    \A i, j \in 1..Len(nodes) : i # j => nodes[i] # nodes[j]

-----------------------------------------------------------------------------
(* process_document, the page loop *)

MaxPages == 2      \* pages of the document under ingestion

\* an embedded image: its pixel size and the length of the text the vision
\* model answers with when it answers
SmallImage == [width |-> 499, height |-> 600, answer |-> 30]
BigImage == [width |-> 500, height |-> 500, answer |-> 30]

\* a page: the length of page.get_text() and page.get_images(full=True)
PageKinds ==
    { [text |-> 0, images |-> <<SmallImage>>],
      [text |-> 22, images |-> <<>>],
      [text |-> 21, images |-> <<BigImage, SmallImage>>] }

Documents ==
    UNION { [1..n -> PageKinds] : n \in 1..MaxPages }

\* the size test of extract_images_from_pdf, min_size = (500, 500)
MeetsMinSize(img) == ~ (img.width < 500 \/ img.height < 500)

\* len of "\n".join(descriptions), each "[Figura i]: " + response.content
RECURSIVE JoinedChars(_)
JoinedChars(ds) ==
    IF ds = <<>> THEN 0
    ELSE IF Len(ds) = 1 THEN Head(ds).chars
    ELSE Head(ds).chars + 1 + JoinedChars(Tail(ds))

\* f"TESTO:\n{text_content}\n\nDESCRIZIONE FIGURE:\n{image_descriptions}":
\* its length and the length of its strip(); without a description the
\* final newline is stripped
FusedContent(text, ds) ==
    [len |-> 7 + text + 22 + JoinedChars(ds),
     stripped |-> IF ds = <<>> THEN 7 + text + 21
                  ELSE 7 + text + 22 + JoinedChars(ds)]

\* the descriptions of _analyze_page_images: one per image the vision model
\* answered about, in the order of the images
RECURSIVE Described(_, _, _)
Described(images, answered, i) ==
    IF i > Len(images) THEN <<>>
    ELSE (IF answered[i]
          THEN << [index |-> i, chars |-> 12 + images[i].answer] >>
          ELSE <<>>) \o Described(images, answered, i + 1)

\* the triples of the extraction answers
Triple(s, p, o) == [subject |-> s, predicate |-> p, object |-> o]
IsA == Triple("A", <<"i", "s", " ", "a">>, "B")
Is == Triple("B", <<"i", "s">>, "A")
NoObject == Triple("A", <<"i", "s">>, "")

\* what extraction_model.invoke does: raise, answer with text that is not
\* JSON, or answer with a JSON list of candidate triples
ExtractionAnswers ==
    { [kind |-> "raise", triples |-> <<>>],
      [kind |-> "bad_json", triples |-> <<>>],
      [kind |-> "json", triples |-> <<NoObject, Is>>],
      [kind |-> "json", triples |-> <<IsA, Is>>] }

\* if subj and pred and obj: normalized.append(...)
Normalized(ts) ==
    SelectSeq(ts, LAMBDA t : t.subject # "" /\ t.predicate # <<>> /\ t.object # "")

\* the short-circuit with the threshold at 20 characters
ShortCircuitAtTwenty(content) == content.stripped < 20

\* if len(content.strip()) < 50: return []
ShortCircuit(content) == content.stripped < 50

\* _extract_knowledge: whether the model was invoked and the list returned
ExtractKnowledge(content, answer) ==
    IF ShortCircuit(content)
    THEN [invoked |-> FALSE, triples |-> <<>>]
    ELSE [invoked |-> TRUE,
          triples |-> IF answer.kind = "json" THEN Normalized(answer.triples)
                      ELSE <<>>]

\* the failure of the Document upsert logged and the run going on
CreateDocumentFailsSwallowed ==
    /\ pc = "create_document"
    /\ pc' = "pages"
    /\ log' = Append(log, Event("document", 0, 0, FALSE))
    /\ UNCHANGED <<sig, textScore, metaDocType, biblioScore, trustScore>>
    /\ UNCHANGED pageVars
    /\ UNCHANGED graphVars

\* self._create_document_node(path.name, trust_score) with the store
\* unavailable: graph_db.query raises and nothing catches it
CreateDocumentFails ==
    /\ pc = "create_document"
    /\ pc' = "raised"
    /\ log' = Append(log, Event("document", 0, 0, FALSE))
    /\ UNCHANGED <<sig, textScore, metaDocType, biblioScore, trustScore>>
    /\ UNCHANGED pageVars
    /\ UNCHANGED graphVars

\* the page's images described with no handler around the vision call
AnalyzePageImagesRaises ==
    /\ pc = "pages"
    /\ pageNum < Len(pages)
    /\ LET images == pages[pageNum + 1].images
       IN \E answered \in [1..Len(images) -> BOOLEAN] :
            /\ descriptions' = Described(images, answered, 1)
            /\ log' = log \o [i \in 1..Len(images) |->
                                 Event("vision", pageNum + 1, i, answered[i])]
            /\ pc' = IF \A i \in 1..Len(images) : answered[i]
                     THEN "extract" ELSE "raised"
    /\ UNCHANGED <<sig, textScore, metaDocType, biblioScore, trustScore>>
    /\ UNCHANGED <<pages, pageNum, knowledge, tripleIdx>>
    /\ UNCHANGED graphVars

\* image_descriptions = self._analyze_page_images(page)
AnalyzePageImages ==
    /\ pc = "pages"
    /\ pageNum < Len(pages)
    /\ LET images == pages[pageNum + 1].images
       IN \E answered \in [1..Len(images) -> BOOLEAN] :
            /\ descriptions' = Described(images, answered, 1)
            /\ log' = log \o [i \in 1..Len(images) |->
                                 Event("vision", pageNum + 1, i, answered[i])]
    /\ pc' = "extract"
    /\ UNCHANGED <<sig, textScore, metaDocType, biblioScore, trustScore>>
    /\ UNCHANGED <<pages, pageNum, knowledge, tripleIdx>>
    /\ UNCHANGED graphVars

\* the extraction of a page with no handler around the model call
ExtractPageRaises ==
    /\ pc = "extract"
    /\ \E answer \in ExtractionAnswers :
          LET content == FusedContent(pages[pageNum + 1].text, descriptions)
              r == ExtractKnowledge(content, answer)
          IN /\ knowledge' = r.triples
             /\ log' = log
                  \o (IF r.invoked
                      THEN << Event("invoke", pageNum + 1, 0, answer.kind = "json") >>
                      ELSE <<>>)
                  \o << Event("extract", pageNum + 1, Len(r.triples), TRUE) >>
             /\ IF r.invoked /\ answer.kind # "json"
                THEN /\ pc' = "raised"
                     /\ pageNum' = pageNum
                     /\ tripleIdx' = 0
                ELSE IF r.triples = <<>>
                THEN /\ pc' = "pages"
                     /\ pageNum' = pageNum + 1
                     /\ tripleIdx' = 0
                ELSE /\ pc' = "save"
                     /\ pageNum' = pageNum
                     /\ tripleIdx' = 1
    /\ descriptions' = <<>>
    /\ UNCHANGED <<sig, textScore, metaDocType, biblioScore, trustScore, pages>>
    /\ UNCHANGED graphVars

\* knowledge = self._extract_knowledge(full_page_content); if knowledge: ...
ExtractPage ==
    /\ pc = "extract"
    /\ \E answer \in ExtractionAnswers :
          LET content == FusedContent(pages[pageNum + 1].text, descriptions)
              r == ExtractKnowledge(content, answer)
          IN /\ knowledge' = r.triples
             /\ log' = log
                  \o (IF r.invoked
                      THEN << Event("invoke", pageNum + 1, 0, answer.kind = "json") >>
                      ELSE <<>>)
                  \o << Event("extract", pageNum + 1, Len(r.triples), TRUE) >>
             /\ IF r.triples = <<>>
                THEN /\ pc' = "pages"
                     /\ pageNum' = pageNum + 1
                     /\ tripleIdx' = 0
                ELSE /\ pc' = "save"
                     /\ pageNum' = pageNum
                     /\ tripleIdx' = 1
    /\ descriptions' = <<>>
    /\ UNCHANGED <<sig, textScore, metaDocType, biblioScore, trustScore, pages>>
    /\ UNCHANGED graphVars

\* the loop of _save_to_graph left after its first triple
NextTripleLeavesLoop ==
    /\ pc' = "pages"
    /\ pageNum' = pageNum + 1
    /\ knowledge' = <<>>
    /\ tripleIdx' = 0

\* the loop of _save_to_graph moves to the next triple, or the page is done
NextTriple ==
    IF tripleIdx = Len(knowledge)
    THEN /\ pc' = "pages"
         /\ pageNum' = pageNum + 1
         /\ knowledge' = <<>>
         /\ tripleIdx' = 0
    ELSE /\ pc' = "save"
         /\ pageNum' = pageNum
         /\ knowledge' = knowledge
         /\ tripleIdx' = tripleIdx + 1

\* a failed write that ends the run
SaveToGraphRaises ==
    /\ pc = "save"
    /\ log' = Append(log, Event("write", pageNum + 1, tripleIdx, FALSE))
    /\ pc' = "raised"
    /\ UNCHANGED <<pageNum, knowledge, tripleIdx>>
    /\ UNCHANGED <<sig, textScore, metaDocType, biblioScore, trustScore,
                   pages, descriptions>>
    /\ UNCHANGED graphVars

\* one iteration of the loop of _save_to_graph: graph_db.query(query, params)
SaveToGraph ==
    /\ pc = "save"
    /\ LET t == knowledge[tripleIdx]
       IN SaveTriple(t.subject, t.predicate, t.object, IngestedDoc)
    /\ log' = Append(log, Event("write", pageNum + 1, tripleIdx, TRUE))
    /\ NextTriple
    /\ UNCHANGED <<sig, textScore, metaDocType, biblioScore, trustScore,
                   pages, descriptions>>

\* one iteration whose query raises: except Exception: logger.error(...)
SaveToGraphFails ==
    /\ pc = "save"
    /\ log' = Append(log, Event("write", pageNum + 1, tripleIdx, FALSE))
    /\ NextTriple
    /\ UNCHANGED <<sig, textScore, metaDocType, biblioScore, trustScore,
                   pages, descriptions>>
    /\ UNCHANGED graphVars

\* the page loop is over: "Processamento completato"
FinishDocument ==
    /\ pc = "pages"
    /\ pageNum = Len(pages)
    /\ pc' = "done"
    /\ UNCHANGED <<sig, textScore, metaDocType, biblioScore, trustScore, log>>
    /\ UNCHANGED pageVars
    /\ UNCHANGED graphVars

\* what the services answer in the runs that go through the pages
RunSignals ==
    { s \in Signals :
        /\ s.classifier \in {"FAILED", "TEXTBOOK"}
        /\ s.doi
        /\ s.citations = <<>>
        /\ s.alex = <<>> }

InitRun ==
    /\ EmptyGraph
    /\ pc = "score_text"
    /\ sig \in RunSignals
    /\ textScore = 0
    /\ metaDocType = "NONE"
    /\ biblioScore = 0
    /\ trustScore = 0
    /\ pages \in Documents
    /\ NoPages

NextRun ==
    \/ ScoreText \/ ScoreTitle \/ CombineTrust
    \/ CreateDocument \/ CreateDocumentFails
    \/ AnalyzePageImages \/ ExtractPage
    \/ SaveToGraph \/ SaveToGraphFails
    \/ FinishDocument

SpecRun == InitRun /\ [][NextRun]_vars

\* the run is never left waiting: every call returns or raises
SpecRunFair == SpecRun /\ WF_vars(NextRun)

-----------------------------------------------------------------------------
(* Claims about the failures of the external services *)

\* the events of the log that satisfy P
EventsWhere(P(_)) == {k \in 1..Len(log) : P(log[k])}

\* the citation lookup was made and did not answer
CitationLookupFailed == sig.doi /\ sig.citations = <<>>

AllSignalsUnavailable ==
    /\ ~ sig.doi \/ sig.citations = <<>>
    /\ sig.alex = <<>>
    /\ sig.classifier = "FAILED"

\* C14: when every trust signal is unavailable the trust stored on the
\* Document node is exactly 0.5.
C14_NeutralPrior ==
    (pc = "pages" /\ AllSignalsUnavailable)
    => (docs[IngestedDoc].present /\ docs[IngestedDoc].trust_score = 50)

\* the identifier was found but its lookup failed, and nothing else answered
C14_Witness ==
    /\ pc = "pages"
    /\ AllSignalsUnavailable
    /\ sig.doi
    /\ textScore = 50 /\ biblioScore = 50
    /\ docs[IngestedDoc].trust_score = 50

-----------------------------------------------------------------------------
(* Claims about the pages of a run *)

\* the calls of the log made for page p
PageEvents(p, ev) == EventsWhere(LAMBDA e : e.ev = ev /\ e.page = p)

\* the events appended by the step
Appended == {k \in 1..Len(log') : k > Len(log)}

\* C15: the vision model is invoked only for images that meet the minimum
\* size (500 x 500): an image below it causes no invocation and contributes no
\* description to the content of its page.
C15_SmallImagesSkipped ==
    /\ \A k \in 1..Len(log) :
          log[k].ev = "vision"
          => MeetsMinSize(pages[log[k].page].images[log[k].item])
    /\ \A k \in 1..Len(descriptions) :
          MeetsMinSize(pages[pageNum + 1].images[descriptions[k].index])

\* C16: extraction of a content shorter than 50 characters returns the empty
\* list and invokes the extraction model zero times.
C16_ShortCircuit ==
    [][(/\ ExtractPage
        /\ FusedContent(pages[pageNum + 1].text, descriptions).len < 50)
       => /\ knowledge' = <<>>
          /\ \A k \in Appended : log'[k].ev # "invoke"
          /\ \E k \in Appended : log'[k] = Event("extract", pageNum + 1, 0, TRUE)
      ]_vars

\* a page of 29 characters (no text, no description) passed without a call
C16_Witness ==
    \E p \in 1..Len(pages) :
        /\ pages[p].text = 0
        /\ PageEvents(p, "vision") # {}
        /\ \A k \in PageEvents(p, "vision") : ~ log[k].ok
        /\ PageEvents(p, "extract") # {}
        /\ PageEvents(p, "invoke") = {}

\* C17: a page whose extraction fails (the model call raises or its answer is
\* not JSON) yields the empty list, writes nothing to the graph and does not
\* end the run: the loop moves to the next page, and at the end of the run
\* every page has been assembled and extracted exactly once.
C17_ExtractionFailureSkipsPage ==
    /\ [][(ExtractPage /\ \E k \in Appended : log'[k].ev = "invoke" /\ ~ log'[k].ok)
          => /\ knowledge' = <<>>
             /\ UNCHANGED <<docs, nodes, edges>>
             /\ pc' = "pages"
             /\ pageNum' = pageNum + 1
         ]_vars
    /\ [](\A p \in 1..Len(pages) :
            (\E k \in PageEvents(p, "invoke") : ~ log[k].ok)
            => PageEvents(p, "write") = {})
    /\ [](pc = "done" =>
            \A p \in 1..Len(pages) : Cardinality(PageEvents(p, "extract")) = 1)

\* the first page failed to extract, the second was extracted and written
C17_Witness ==
    /\ pc = "done"
    /\ Len(pages) = 2
    /\ \E k \in PageEvents(1, "invoke") : ~ log[k].ok
    /\ \E k \in PageEvents(2, "write") : log[k].ok
    /\ edges # <<>>

\* C18: a graph write that fails for one triple leaves the graph unchanged and
\* the loop goes on: at the end of the run every triple extracted from every
\* page has had its write issued, and the run did not raise.
C18_WriteFailureSkipsTriple ==
    /\ [][(pc = "save" /\ \E k \in Appended : log'[k].ev = "write" /\ ~ log'[k].ok)
          => /\ UNCHANGED <<docs, nodes, edges>>
             /\ pc' \in {"save", "pages"}
             /\ pc' = "save" => (tripleIdx' = tripleIdx + 1 /\ knowledge' = knowledge)
             /\ pc' = "pages" => tripleIdx = Len(knowledge)
         ]_vars
    /\ [](pc = "done" =>
            \A p \in 1..Len(pages) :
               \A k \in PageEvents(p, "extract") :
                  {log[j].item : j \in PageEvents(p, "write")} = 1..log[k].item)
    /\ [](pc = "raised" => \A k \in 1..Len(log) : log[k].ev # "write")

\* the first write of a page failed, the second of the page and one of a
\* later page succeeded
C18_Witness ==
    /\ pc = "done"
    /\ \E k \in PageEvents(1, "write") : log[k].item = 1 /\ ~ log[k].ok
    /\ \E k \in PageEvents(1, "write") : log[k].item = 2 /\ log[k].ok
    /\ \E k \in PageEvents(2, "write") : log[k].ok

\* C19: when the Document upsert fails, process_document raises, and no page
\* of the document is described or extracted and no triple is written: the
\* graph holds no Document node for it and no Concept or edge from it.
C19_StoreUnavailableAtStart ==
    (\E k \in 1..Len(log) : log[k] = Event("document", 0, 0, FALSE))
    => /\ pc = "raised"
       /\ \A k \in 1..Len(log) : log[k].page = 0
       /\ ~ docs[IngestedDoc].present
       /\ nodes = <<>> /\ edges = <<>>

\* the upsert of the Document node of a two-page document failed
C19_Witness ==
    /\ pc = "raised"
    /\ Len(pages) = 2
    /\ log[Len(log)] = Event("document", 0, 0, FALSE)

\* C20: the two trust computations and the Document upsert happen once each
\* and before any call made for a page; the calls made for the pages are in
\* page order; when the extraction of a page begins every triple extracted
\* from every earlier page has had its write issued.
C20_RunOrder ==
    /\ \A ev \in {"score_text", "score_title", "document"} :
          /\ Cardinality(PageEvents(0, ev)) <= 1
          /\ pc = "done" => Cardinality(PageEvents(0, ev)) = 1
    /\ \A k \in 1..Len(log) :
          log[k].page > 0 =>
             /\ log[1] = Event("score_text", 0, 0, TRUE)
             /\ log[2] = Event("score_title", 0, 0, TRUE)
             /\ log[3] = Event("document", 0, 0, TRUE)
             /\ k > 3
    /\ \A k, l \in 1..Len(log) :
          (k < l /\ log[k].page > 0) => log[k].page <= log[l].page
    /\ \A l \in 1..Len(log) :
          log[l].ev \in {"invoke", "extract"} =>
             \A p \in 1..(log[l].page - 1) :
                /\ Cardinality(PageEvents(p, "extract")) = 1
                /\ \A k \in PageEvents(p, "extract") :
                      /\ k < l
                      /\ {log[j].item : j \in PageEvents(p, "write")} = 1..log[k].item
                      /\ \A j \in PageEvents(p, "write") : k < j /\ j < l

\* two triples of page 1 written, then page 2 extracted and written
C20_Witness ==
    /\ pc = "done"
    /\ Cardinality(PageEvents(1, "write")) = 2
    /\ PageEvents(2, "invoke") # {}
    /\ PageEvents(2, "write") # {}

-----------------------------------------------------------------------------
(* Claims about what an operation leaves alone *)

\* C21: a review commit of edge X, with or without edited subject, predicate
\* or object text, leaves every other edge's (subject, type, object) key,
\* weight, sources, status and validated_at unchanged, and X keeps its own
\* weight and sources.
C21_CommitFrame ==
    [][\A r \in Rows :
         CommitTriples(<<r>>) =>
            /\ Len(edges') = Len(edges)
            /\ edges'[r.rel_id].weight = edges[r.rel_id].weight
            /\ edges'[r.rel_id].sources = edges[r.rel_id].sources
            /\ \A i \in EdgeIds \ {r.rel_id} :
                  /\ KeyOf(nodes', edges'[i]) = KeyOf(nodes, edges[i])
                  /\ edges'[i].weight = edges[i].weight
                  /\ edges'[i].sources = edges[i].sources
                  /\ edges'[i].status = edges[i].status
                  /\ edges'[i].validated_at = edges[i].validated_at
      ]_vars

-----------------------------------------------------------------------------
(* Upserts, each recorded with whether its Document node existed *)

MaxUpserts == 3    \* upserts issued, with or without a Document node

DoUpsertLogged ==
    /\ Len(log) < MaxUpserts
    /\ \E k \in OrderTriples, d \in DocNames :
          /\ SaveTriple(k[1], k[2], k[3], d)
          /\ log' = Append(log, Event("upsert", 0, 0, docs[d].present))
    /\ UNCHANGED <<pc, sig, textScore, metaDocType, biblioScore, trustScore>>
    /\ UNCHANGED pageVars

NextProvenance == DoCreateOnce \/ DoUpsertLogged

SpecProvenance == Init /\ [][NextProvenance]_vars

\* the names a step adds to the sources of the edges
AppendedSources ==
    UNION { {edges'[i].sources[k] :
                k \in (IF i <= Len(edges) THEN Len(edges[i].sources) ELSE 0) + 1
                      .. Len(edges'[i].sources)} :
            i \in 1..Len(edges') }

\* C22: an upsert whose source names no Document node changes nothing: no
\* Concept node, no edge, no weight, no sources; so every name a step appends
\* to an edge's sources names a Document node that exists at that step, and
\* every name in any edge's sources names a Document node.
C22_OrphanUpsertIsNoOp ==
    /\ [][\A k \in OrderTriples, d \in DocNames :
            (SaveTriple(k[1], k[2], k[3], d) /\ ~ docs[d].present)
            => UNCHANGED <<docs, nodes, edges>>
         ]_vars
    /\ [][\A d \in AppendedSources : docs[d].present]_vars
    /\ [](\A i \in EdgeIds : \A k \in 1..Len(edges[i].sources) :
             docs[edges[i].sources[k]].present)

\* an edge from doc1, then an upsert naming doc2, which has no Document node
C22_Witness ==
    /\ log = << Event("upsert", 0, 0, TRUE), Event("upsert", 0, 0, FALSE) >>
    /\ docs["doc1"].present /\ ~ docs["doc2"].present
    /\ Len(edges) = 1
    /\ edges[1].sources = <<"doc1">>
    /\ Len(nodes) = 2

====
